---- MODULE Spec2Model ----
(***************************************************************************)
(* A model of theatre/shared/src/utils/addresses.ts: the path algebra over *)
(* PathToProp (encode/decode, equality, prefix test, common root) and the  *)
(* resolution of a path against a nested serializable value.               *)
(*                                                                         *)
(* A JavaScript string is a sequence of one-character strings, a path step *)
(* is a tagged record, and every function of the source is an operator     *)
(* computed the way the source computes it.  The two loops of the source   *)
(* (getValueByPropPath, commonRootOfPathsToProps) are also run one         *)
(* iteration per step, so that what they do on the way is visible.         *)
(***************************************************************************)
EXTENDS Integers, Sequences, FiniteSets, TLC

VARIABLES
    \* doesPathStartWith / arePathsEqual: the two arguments, the function
    \* called and what it returned
    argA, argB, cmpOp, cmpRet,
    \* commonRootOfPathsToProps: the argument, the accumulator, where the
    \* call is ("loop", "returned") and the iterations of while (true) begun
    pathsToProps, commonPathToProp, rootPc, rootIters,
    \* getValueByPropPath: the array objects in memory (the caller's
    \* pathToProp and the one line 87 allocates for p), the array the local p
    \* is bound to, the argument rootVal, the local cur, where the call is
    \* ("call", "loop", "returned", "threw") and what it returned
    arrays, pRef, rootVal, cur, getPc, getRet,
    \* encodePathToProp / decodePathToProp: the path arrays in memory (an
    \* array's identity is its index), the cache of the memoized encoder, the
    \* instance last encoded and the string returned, the result of decoding
    \* that string, and which call came last ("idle", "encoded", "decoded")
    instances, cache, encArg, encRet, decRet, codecPc

cmpVars == <<argA, argB, cmpOp, cmpRet>>
rootVars == <<pathsToProps, commonPathToProp, rootPc, rootIters>>
getVars == <<arrays, pRef, rootVal, cur, getPc, getRet>>
codecVars == <<instances, cache, encArg, encRet, decRet, codecPc>>
vars == <<cmpVars, rootVars, getVars, codecVars>>

(***************************************************************************)
(* Bounds of the model.                                                    *)
(***************************************************************************)
MaxLen == 2
MaxPaths == 3
MaxArr == 1
MaxStr == 1
MaxInst == 2

(***************************************************************************)
(* Path steps: string | number, and the undefined an out-of-range read     *)
(* gives.  `s` is the string's characters, `n` the number.                 *)
(***************************************************************************)
Str(s) == [k |-> "string", s |-> s, n |-> 0]
Num(n) == [k |-> "number", s |-> <<>>, n |-> n]
Undefined == [k |-> "undefined", s |-> <<>>, n |-> 0]

\* a === b on steps: same type and same value
StrictEq(a, b) == a.k = b.k /\ a.s = b.s /\ a.n = b.n

\* the value of a decimal digit, -1 for any other character
DigitVal(c) ==
    CASE c = "0" -> 0 [] c = "1" -> 1 [] c = "2" -> 2 [] c = "3" -> 3
      [] c = "4" -> 4 [] c = "5" -> 5 [] c = "6" -> 6 [] c = "7" -> 7
      [] c = "8" -> 8 [] c = "9" -> 9 [] OTHER -> -1

\* ToNumber of a string, for the variants that compare with ==: the number a
\* string of decimal digits writes, and -1 for NaN, which no number equals
RECURSIVE ToNumber(_)
ToNumber(s) ==
    IF s = <<>> THEN 0
    ELSE LET hi == ToNumber(SubSeq(s, 1, Len(s) - 1))
             d == DigitVal(s[Len(s)])
         IN  IF hi < 0 \/ d < 0 THEN -1 ELSE 10 * hi + d

\* a == b on steps: a string against a number compares the string's number
LooseEq(a, b) ==
    \/ StrictEq(a, b)
    \/ a.k = "string" /\ b.k = "number" /\ ToNumber(a.s) >= 0 /\ ToNumber(a.s) = b.n
    \/ a.k = "number" /\ b.k = "string" /\ ToNumber(b.s) >= 0 /\ ToNumber(b.s) = a.n

\* arr[i], JavaScript's zero-based read: undefined outside the array
At(arr, i) == IF i >= 0 /\ i < Len(arr) THEN arr[i + 1] ELSE Undefined

\* the paths of at most n steps drawn from S
PathsOver(S, n) == UNION {[1..len -> S] : len \in 0..n}

\* steps of the comparison, common-root and resolution runs
Steps == {Str(<<"a">>), Str(<<"1">>), Num(1), Num(0)}
Paths == PathsOver(Steps, MaxLen)

(***************************************************************************)
(* doesPathStartWith (addresses.ts 115-120)                                *)
(***************************************************************************)
\* variant: the callback compares with == for ===
DoesPathStartWithLoose(path, pathPrefix) ==
    \A i \in 0..(Len(pathPrefix) - 1) : LooseEq(At(pathPrefix, i), At(path, i))

\* pathPrefix.every((pathPart, i) => pathPart === path[i])
doesPathStartWith(path, pathPrefix) ==
    \A i \in 0..(Len(pathPrefix) - 1) : StrictEq(At(pathPrefix, i), At(path, i))

(***************************************************************************)
(* arePathsEqual (addresses.ts 122-131)                                    *)
(***************************************************************************)
\* the for loop from index i on: false at the first unequal pair
RECURSIVE ArePathsEqualFrom(_, _, _)
ArePathsEqualFrom(pathToPropA, pathToPropB, i) ==
    IF ~(i < Len(pathToPropA)) THEN TRUE
    ELSE IF ~StrictEq(At(pathToPropA, i), At(pathToPropB, i)) THEN FALSE
    ELSE ArePathsEqualFrom(pathToPropA, pathToPropB, i + 1)

\* variant: the function without the length test of line 126
ArePathsEqualNoLengthCheck(pathToPropA, pathToPropB) ==
    ArePathsEqualFrom(pathToPropA, pathToPropB, 0)

arePathsEqual(pathToPropA, pathToPropB) ==
    IF Len(pathToPropA) # Len(pathToPropB) THEN FALSE
    ELSE ArePathsEqualFrom(pathToPropA, pathToPropB, 0)

(***************************************************************************)
(* The comparison run: two paths are given, one of the two functions is    *)
(* called on them.                                                         *)
(***************************************************************************)
CompareOff == argA = <<>> /\ argB = <<>> /\ cmpOp = "off" /\ cmpRet = FALSE
RootOff ==
    /\ pathsToProps = <<>>
    /\ commonPathToProp = <<>>
    /\ rootPc = "off"
    /\ rootIters = 0

GetOff ==
    /\ arrays = [pathToProp |-> <<>>, p |-> <<>>]
    /\ pRef = "none"
    /\ rootVal = [t |-> "undefined", n |-> 0, keys |-> <<>>, kids |-> <<>>]
    /\ cur = [t |-> "undefined", n |-> 0, keys |-> <<>>, kids |-> <<>>]
    /\ getPc = "off"
    /\ getRet = [t |-> "undefined", n |-> 0, keys |-> <<>>, kids |-> <<>>]

CodecOff ==
    /\ instances = <<>>
    /\ cache = {}
    /\ encArg = 0
    /\ encRet = <<>>
    /\ decRet = [ok |-> FALSE, path |-> <<>>]
    /\ codecPc = "off"

InitCompare ==
    /\ argA \in Paths
    /\ argB \in Paths
    /\ cmpOp = "idle"
    /\ cmpRet = FALSE
    /\ RootOff
    /\ GetOff
    /\ CodecOff

CallDoesPathStartWith ==
    /\ cmpOp = "idle"
    /\ cmpOp' = "doesPathStartWith"
    /\ cmpRet' = doesPathStartWith(argA, argB)
    /\ UNCHANGED <<argA, argB, rootVars, getVars, codecVars>>

CallArePathsEqual ==
    /\ cmpOp = "idle"
    /\ cmpOp' = "arePathsEqual"
    /\ cmpRet' = arePathsEqual(argA, argB)
    /\ UNCHANGED <<argA, argB, rootVars, getVars, codecVars>>

NextCompare == CallDoesPathStartWith \/ CallArePathsEqual

SpecCompare == InitCompare /\ [][NextCompare]_vars

(***************************************************************************)
(* commonRootOfPathsToProps (addresses.ts 143-158)                         *)
(***************************************************************************)
\* pathsToProps[0]?.[i]: undefined when there is no first path
FirstPathAt(paths, i) == IF Len(paths) = 0 THEN Undefined ELSE At(paths[1], i)

\* variant: the for loop skips a path that has no step at i
RootIterationSkippingShort(paths, common) ==
    LET i == Len(common)
        candidatePathPart == FirstPathAt(paths, i)
    IN  IF StrictEq(candidatePathPart, Undefined)
        THEN [returns |-> TRUE, common |-> common]
        ELSE IF \E j \in 1..Len(paths) :
                    /\ ~StrictEq(At(paths[j], i), Undefined)
                    /\ ~StrictEq(candidatePathPart, At(paths[j], i))
        THEN [returns |-> TRUE, common |-> common]
        ELSE [returns |-> FALSE, common |-> Append(common, candidatePathPart)]

\* variant: the for loop compares with == for ===
RootIterationLoose(paths, common) ==
    LET i == Len(common)
        candidatePathPart == FirstPathAt(paths, i)
    IN  IF StrictEq(candidatePathPart, Undefined)
        THEN [returns |-> TRUE, common |-> common]
        ELSE IF \E j \in 1..Len(paths) :
                    ~LooseEq(candidatePathPart, At(paths[j], i))
        THEN [returns |-> TRUE, common |-> common]
        ELSE [returns |-> FALSE, common |-> Append(common, candidatePathPart)]

\* variant: the body without the test of line 148
RootIterationNoExhaustedTest(paths, common) ==
    LET i == Len(common)
        candidatePathPart == FirstPathAt(paths, i)
    IN  IF \E j \in 1..Len(paths) :
                ~StrictEq(candidatePathPart, At(paths[j], i))
        THEN [returns |-> TRUE, common |-> common]
        ELSE [returns |-> FALSE, common |-> Append(common, candidatePathPart)]

\* One iteration of while (true), lines 146-156: either the function returns
\* the accumulator or the candidate step is pushed onto it.
RootIteration(paths, common) ==
    LET i == Len(common)
        candidatePathPart == FirstPathAt(paths, i)
    IN  IF StrictEq(candidatePathPart, Undefined)
        THEN [returns |-> TRUE, common |-> common]
        ELSE IF \E j \in 1..Len(paths) :
                    ~StrictEq(candidatePathPart, At(paths[j], i))
        THEN [returns |-> TRUE, common |-> common]
        ELSE [returns |-> FALSE, common |-> Append(common, candidatePathPart)]

\* the loop run to its return, from the accumulator `common`
RECURSIVE CommonRootFrom(_, _)
CommonRootFrom(paths, common) ==
    LET it == RootIteration(paths, common)
    IN  IF it.returns THEN it.common ELSE CommonRootFrom(paths, it.common)

commonRootOfPathsToProps(paths) == CommonRootFrom(paths, <<>>)

\* steps and collections of the common-root run
RootSteps == {Str(<<"1">>), Num(1)}
RootPaths == PathsOver(RootSteps, MaxLen)
Collections == PathsOver(RootPaths, MaxPaths)

\* the iterations a run may begin before the model stops it
IterCap == MaxLen + 3

InitRoot ==
    /\ pathsToProps \in Collections
    /\ commonPathToProp = <<>>
    /\ rootPc = "loop"
    /\ rootIters = 0
    /\ CompareOff
    /\ GetOff
    /\ CodecOff

\* an iteration that ends at one of the two return statements
RootReturn ==
    /\ rootPc = "loop"
    /\ rootIters < IterCap
    /\ RootIteration(pathsToProps, commonPathToProp).returns
    /\ rootPc' = "returned"
    /\ rootIters' = rootIters + 1
    /\ commonPathToProp' = RootIteration(pathsToProps, commonPathToProp).common
    /\ UNCHANGED <<pathsToProps, cmpVars, getVars, codecVars>>

\* an iteration that reaches commonPathToProp.push(candidatePathPart)
RootPush ==
    /\ rootPc = "loop"
    /\ rootIters < IterCap
    /\ ~RootIteration(pathsToProps, commonPathToProp).returns
    /\ rootIters' = rootIters + 1
    /\ commonPathToProp' = RootIteration(pathsToProps, commonPathToProp).common
    /\ UNCHANGED <<pathsToProps, rootPc, cmpVars, getVars, codecVars>>

NextRoot == RootReturn \/ RootPush

SpecRoot == InitRoot /\ [][NextRoot]_vars

\* the call, once made, runs on: the loop is synchronous code
FairSpecRoot == SpecRoot /\ WF_vars(NextRoot)

(***************************************************************************)
(* JavaScript values for getValueByPropPath: null, undefined, a number, an *)
(* array (kids), a plain object (own keys, and kids under them) and a      *)
(* function.                                                               *)
(***************************************************************************)
VNull == [t |-> "null", n |-> 0, keys |-> <<>>, kids |-> <<>>]
VUndefined == [t |-> "undefined", n |-> 0, keys |-> <<>>, kids |-> <<>>]
VNum(n) == [t |-> "number", n |-> n, keys |-> <<>>, kids |-> <<>>]
VArr(elems) == [t |-> "array", n |-> 0, keys |-> <<>>, kids |-> elems]
VObj(ks, vs) == [t |-> "object", n |-> 0, keys |-> ks, kids |-> vs]
\* the function Object, which Object.prototype.constructor holds
VFunction == [t |-> "function", n |-> 0, keys |-> <<>>, kids |-> <<>>]
\* what a property read of null or undefined does
TypeError == [t |-> "TypeError", n |-> 0, keys |-> <<>>, kids |-> <<>>]

\* typeof v
TypeOf(v) ==
    CASE v.t = "null" -> "object"
      [] v.t = "array" -> "object"
      [] v.t = "object" -> "object"
      [] OTHER -> v.t

\* Array.isArray(v)
IsArray(v) == v.t = "array"

Constructor == <<"c", "o", "n", "s", "t", "r", "u", "c", "t", "o", "r">>

\* A read of Object.prototype, where the lookup of a key that a plain object
\* does not own continues.  Of its properties the model has `constructor`.
ObjectPrototypeGet(s) == IF s = Constructor THEN VFunction ELSE VUndefined

HasOwn(obj, s) == \E i \in 1..Len(obj.keys) : obj.keys[i] = s
OwnValue(obj, s) == obj.kids[CHOOSE i \in 1..Len(obj.keys) : obj.keys[i] = s]

\* v[key], the property read of lines 96 and 102
GetProp(v, key) ==
    CASE v.t \in {"null", "undefined"} -> TypeError
      [] v.t = "array" /\ key.k = "number" ->
            IF key.n >= 0 /\ key.n < Len(v.kids) THEN v.kids[key.n + 1] ELSE VUndefined
      [] v.t = "object" /\ key.k = "string" ->
            IF HasOwn(v, key.s) THEN OwnValue(v, key.s) ELSE ObjectPrototypeGet(key.s)
      [] OTHER -> VUndefined

\* variant: the body of the while loop without the test cur !== null
GetIterationNoNullTest(c, key) ==
    IF TypeOf(c) = "object"
    THEN IF IsArray(c)
         THEN IF key.k = "number"
              THEN [returns |-> FALSE, val |-> GetProp(c, key)]
              ELSE [returns |-> TRUE, val |-> VUndefined]
         ELSE IF key.k = "string"
              THEN [returns |-> FALSE, val |-> GetProp(c, key)]
              ELSE [returns |-> TRUE, val |-> VUndefined]
    ELSE [returns |-> TRUE, val |-> VUndefined]

\* The body of the while loop after key = p.shift(), lines 93-109: either the
\* function returns val, or cur becomes val.
GetIteration(c, key) ==
    IF c.t # "null" /\ TypeOf(c) = "object"
    THEN IF IsArray(c)
         THEN IF key.k = "number"
              THEN [returns |-> FALSE, val |-> GetProp(c, key)]
              ELSE [returns |-> TRUE, val |-> VUndefined]
         ELSE IF key.k = "string"
              THEN [returns |-> FALSE, val |-> GetProp(c, key)]
              ELSE [returns |-> TRUE, val |-> VUndefined]
    ELSE [returns |-> TRUE, val |-> VUndefined]

\* variant: const p = pathToProp, no copy is made
SpreadAliased == "pathToProp"

\* const p = [...pathToProp], line 87: the array object p is bound to
Spread == "p"

\* values of the resolution run: leaves, then two levels of arrays and objects
ObjKeyLists == {<<>>, <<(<<"a">>)>>, <<(<<"b">>)>>, <<(<<"a">>), (<<"b">>)>>}
Leaves == {VNull, VNum(7)}
Composites(S) ==
    {VArr(elems) : elems \in PathsOver(S, MaxArr)}
        \cup UNION {{VObj(ks, vs) : vs \in [1..Len(ks) -> S]} : ks \in ObjKeyLists}
Level1 == Leaves \cup Composites(Leaves)
Values == Leaves \cup Composites(Level1)

GetSteps == {Str(<<"a">>), Str(<<"b">>), Str(Constructor), Num(0), Num(1)}
GetPaths == PathsOver(GetSteps, MaxLen)

InitGet ==
    /\ arrays \in {[pathToProp |-> path, p |-> <<>>] : path \in GetPaths}
    /\ pRef = "none"
    /\ rootVal \in Values
    /\ cur = VUndefined
    /\ getPc = "call"
    /\ getRet = VUndefined
    /\ CompareOff
    /\ RootOff
    /\ CodecOff

\* lines 87-88: p and cur are initialised
GetEnter ==
    /\ getPc = "call"
    /\ pRef' = Spread
    /\ arrays' = [arrays EXCEPT ![Spread] = arrays.pathToProp]
    /\ cur' = rootVal
    /\ getPc' = "loop"
    /\ UNCHANGED <<rootVal, getRet, cmpVars, rootVars, codecVars>>

\* lines 90-110: one iteration of while (p.length !== 0)
GetIterate ==
    /\ getPc = "loop"
    /\ Len(arrays[pRef]) # 0
    /\ LET key == Head(arrays[pRef])
           it == GetIteration(cur, key)
       IN  /\ arrays' = [arrays EXCEPT ![pRef] = Tail(@)]
           /\ IF it.val = TypeError
              THEN getPc' = "threw" /\ UNCHANGED <<cur, getRet>>
              ELSE IF it.returns
              THEN getPc' = "returned" /\ getRet' = it.val /\ UNCHANGED cur
              ELSE getPc' = "loop" /\ cur' = it.val /\ UNCHANGED getRet
    /\ UNCHANGED <<pRef, rootVal, cmpVars, rootVars, codecVars>>

\* line 112: return cur
GetReturn ==
    /\ getPc = "loop"
    /\ Len(arrays[pRef]) = 0
    /\ getPc' = "returned"
    /\ getRet' = cur
    /\ UNCHANGED <<arrays, pRef, rootVal, cur, cmpVars, rootVars, codecVars>>

NextGet == GetEnter \/ GetIterate \/ GetReturn

SpecGet == InitGet /\ [][NextGet]_vars

(***************************************************************************)
(* JSON.stringify of a path (addresses.ts 66): "[", the steps joined by    *)
(* ",", "]".  A string step is quoted and escaped, a number step is its    *)
(* decimal digits.  Of the control characters the model has the line feed. *)
(***************************************************************************)
DigitChar(d) ==
    CASE d = 0 -> "0" [] d = 1 -> "1" [] d = 2 -> "2" [] d = 3 -> "3"
      [] d = 4 -> "4" [] d = 5 -> "5" [] d = 6 -> "6" [] d = 7 -> "7"
      [] d = 8 -> "8" [] OTHER -> "9"

RECURSIVE DigitsOf(_)
DigitsOf(n) ==
    IF n < 10 THEN <<DigitChar(n)>> ELSE DigitsOf(n \div 10) \o <<DigitChar(n % 10)>>

\* Number.prototype.toString of an integer
NumberToString(n) == IF n < 0 THEN <<"-">> \o DigitsOf(0 - n) ELSE DigitsOf(n)

\* one character inside a JSON string literal
EscapeChar(c) ==
    CASE c = "\"" -> <<"\\", "\"">>
      [] c = "\\" -> <<"\\", "\\">>
      [] c = "\n" -> <<"\\", "n">>
      [] OTHER -> <<c>>

RECURSIVE EscapeChars(_)
EscapeChars(s) == IF s = <<>> THEN <<>> ELSE EscapeChar(Head(s)) \o EscapeChars(Tail(s))

QuoteJSONString(s) == <<"\"">> \o EscapeChars(s) \o <<"\"">>

\* variant: a step written without its quotes, as String(step) writes it
SerializeStepUnquoted(step) ==
    IF step.k = "string" THEN step.s ELSE NumberToString(step.n)

\* a step of the array: an undefined element is written null
SerializeStep(step) ==
    CASE step.k = "string" -> QuoteJSONString(step.s)
      [] step.k = "number" -> NumberToString(step.n)
      [] OTHER -> <<"n", "u", "l", "l">>

RECURSIVE JoinSteps(_)
JoinSteps(path) ==
    IF Len(path) = 0 THEN <<>>
    ELSE IF Len(path) = 1 THEN SerializeStep(path[1])
    ELSE SerializeStep(path[1]) \o <<",">> \o JoinSteps(Tail(path))

JSONStringify(path) == <<"[">> \o JoinSteps(path) \o <<"]">>

(***************************************************************************)
(* JSON.parse of a string (addresses.ts 70), for an array of strings and   *)
(* integers: a recursive descent over the characters.  A result is the     *)
(* path read, or ok = FALSE where JSON.parse throws a SyntaxError.  i is a *)
(* position in the string, from 1.                                         *)
(***************************************************************************)
ParseFail == [ok |-> FALSE, step |-> Undefined, next |-> 0]

IsDigit(c) == DigitVal(c) >= 0

\* the characters of a string literal from i on, up to its closing quote
RECURSIVE ParseStringChars(_, _, _)
ParseStringChars(s, i, acc) ==
    IF i > Len(s) THEN ParseFail
    ELSE IF s[i] = "\"" THEN [ok |-> TRUE, step |-> Str(acc), next |-> i + 1]
    ELSE IF s[i] = "\n" THEN ParseFail
    ELSE IF s[i] = "\\"
    THEN IF i + 1 > Len(s) THEN ParseFail
         ELSE IF s[i + 1] \in {"\"", "\\", "/"}
         THEN ParseStringChars(s, i + 2, Append(acc, s[i + 1]))
         ELSE IF s[i + 1] = "n" THEN ParseStringChars(s, i + 2, Append(acc, "\n"))
         ELSE ParseFail
    ELSE ParseStringChars(s, i + 1, Append(acc, s[i]))

\* the digits of an integer from i on; val is the number read so far
RECURSIVE ParseDigits(_, _, _)
ParseDigits(s, i, val) ==
    IF i <= Len(s) /\ IsDigit(s[i])
    THEN ParseDigits(s, i + 1, 10 * val + DigitVal(s[i]))
    ELSE [val |-> val, next |-> i]

\* an integer at i: an optional minus, then 0 or a digit 1-9 and more digits
ParseNumber(s, i) ==
    LET neg == s[i] = "-"
        j == IF neg THEN i + 1 ELSE i
    IN  IF j > Len(s) \/ ~IsDigit(s[j]) THEN ParseFail
        ELSE LET d == IF s[j] = "0" THEN [val |-> 0, next |-> j + 1]
                      ELSE ParseDigits(s, j, 0)
             IN  [ok |-> TRUE,
                  step |-> Num(IF neg THEN 0 - d.val ELSE d.val),
                  next |-> d.next]

ParseValue(s, i) ==
    IF i > Len(s) THEN ParseFail
    ELSE IF s[i] = "\"" THEN ParseStringChars(s, i + 1, <<>>)
    ELSE IF s[i] = "-" \/ IsDigit(s[i]) THEN ParseNumber(s, i)
    ELSE ParseFail

\* the elements of the array from i on, after those in acc
RECURSIVE ParseElements(_, _, _)
ParseElements(s, i, acc) ==
    LET v == ParseValue(s, i)
    IN  IF ~v.ok \/ v.next > Len(s) THEN [ok |-> FALSE, path |-> <<>>]
        ELSE IF s[v.next] = ","
        THEN ParseElements(s, v.next + 1, Append(acc, v.step))
        ELSE IF s[v.next] = "]" /\ v.next = Len(s)
        THEN [ok |-> TRUE, path |-> Append(acc, v.step)]
        ELSE [ok |-> FALSE, path |-> <<>>]

JSONParse(s) ==
    IF Len(s) < 2 \/ s[1] # "[" THEN [ok |-> FALSE, path |-> <<>>]
    ELSE IF s[2] = "]" THEN [ok |-> Len(s) = 2, path |-> <<>>]
    ELSE ParseElements(s, 2, <<>>)

\* decodePathToProp (addresses.ts 69-70)
decodePathToProp(s) == JSONParse(s)

(***************************************************************************)
(* memoizeFn, which wraps the encoder (imported at addresses.ts 7, its     *)
(* source is in ./memoizeFn): a map keyed by the argument's identity,      *)
(* written when the key is absent, never cleared.  The cache is a set of   *)
(* entries.                                                                *)
(***************************************************************************)
MapHas(m, k) == \E e \in m : e.key = k
MapGet(m, k) == (CHOOSE e \in m : e.key = k).val
MapSet(m, k, v) == {e \in m : e.key # k} \cup {[key |-> k, val |-> v]}

\* variant: a cache that holds one entry, a new key evicts the others
MemoizedCacheEvicting(m, k, v) == IF MapHas(m, k) THEN m ELSE {[key |-> k, val |-> v]}

\* the cache after a call with key k, whose value the producer computes as v
MemoizedCache(m, k, v) == IF MapHas(m, k) THEN m ELSE MapSet(m, k, v)

\* variant: the encoder joins the steps' String forms
EncodeProducerJoin(path) ==
    IF Len(path) = 0 THEN <<"[", "]">>
    ELSE <<"[">> \o
         LET RECURSIVE Join(_)
             Join(q) == IF Len(q) = 1 THEN SerializeStepUnquoted(q[1])
                        ELSE SerializeStepUnquoted(q[1]) \o <<",">> \o Join(Tail(q))
         IN  Join(path)
         \o <<"]">>

\* (p) => JSON.stringify(p), lines 65-66
EncodeProducer(path) == JSONStringify(path)

\* encodePathToProp = memoizeFn(producer), lines 64-67, called with the path
\* instance k of content `path` when the cache is m: the cache after the call
\* and the string returned, which is read from the cache
encodePathToProp(m, k, path) ==
    LET after == MemoizedCache(m, k, EncodeProducer(path))
    IN  [cache |-> after, ret |-> MapGet(after, k)]

\* steps, paths and instances of the encode/decode runs
CodecChars == {"a", "1", "\"", "\\", ",", "]", "\n"}
CodecStrings == PathsOver(CodecChars, MaxStr)
CodecNums == {-12, -1, 0, 1, 10}
CodecSteps == {Str(s) : s \in CodecStrings} \cup {Num(n) : n \in CodecNums}
CodecPaths == PathsOver(CodecSteps, MaxLen)
MemoPaths == {<<>>, <<Str(<<"1">>)>>, <<Num(1)>>, <<Str(<<"1">>), Num(1)>>}

CodecStart ==
    /\ cache = {}
    /\ encArg = 0
    /\ encRet = <<>>
    /\ decRet = [ok |-> FALSE, path |-> <<>>]
    /\ codecPc = "idle"
    /\ CompareOff
    /\ RootOff
    /\ GetOff

\* one path instance, of any content
InitCodec ==
    /\ instances \in {<<path>> : path \in CodecPaths}
    /\ CodecStart

\* several path instances, some of equal content
InitMemo ==
    /\ instances \in UNION {[1..n -> MemoPaths] : n \in 1..MaxInst}
    /\ CodecStart

\* encodePathToProp(instances[i]), lines 64-67
CallEncode(i) ==
    /\ codecPc # "off"
    /\ cache' = encodePathToProp(cache, i, instances[i]).cache
    /\ encArg' = i
    /\ encRet' = encodePathToProp(cache, i, instances[i]).ret
    /\ decRet' = [ok |-> FALSE, path |-> <<>>]
    /\ codecPc' = "encoded"
    /\ UNCHANGED <<instances, cmpVars, rootVars, getVars>>

\* decodePathToProp of the string last encoded, lines 69-70
CallDecode ==
    /\ codecPc = "encoded"
    /\ decRet' = decodePathToProp(encRet)
    /\ codecPc' = "decoded"
    /\ UNCHANGED <<instances, cache, encArg, encRet, cmpVars, rootVars, getVars>>

NextCodec == (\E i \in 1..Len(instances) : CallEncode(i)) \/ CallDecode

SpecCodec == InitCodec /\ [][NextCodec]_vars

SpecMemo == InitMemo /\ [][NextCodec]_vars

(***************************************************************************)
(* Properties of doesPathStartWith and arePathsEqual, under SpecCompare.   *)
(***************************************************************************)
\* path starts with prefix: prefix is no longer, and the steps agree in type
\* and value at every index of prefix
StartsWith(path, prefix) ==
    /\ Len(path) >= Len(prefix)
    /\ \A i \in 1..Len(prefix) : path[i] = prefix[i]

\* C5: doesPathStartWith(path, prefix) is true exactly when path is at least
\* as long as prefix and equals it, type and value, at every index of prefix;
\* so it is true of (p, []) and of (p, p), and false of a path shorter than
\* the prefix.
C5_DoesPathStartWithIsPrefix ==
    /\ cmpOp = "doesPathStartWith" =>
          /\ cmpRet = StartsWith(argA, argB)
          /\ (Len(argA) < Len(argB) => ~cmpRet)
    /\ cmpOp # "off" =>
          /\ doesPathStartWith(argA, <<>>)
          /\ doesPathStartWith(argA, argA)

\* doesPathStartWith(["1", 1], ["1"]) returned true
C5_Witness ==
    /\ cmpOp = "doesPathStartWith"
    /\ argA = <<Str(<<"1">>), Num(1)>>
    /\ argB = <<Str(<<"1">>)>>
    /\ cmpRet

\* C6: arePathsEqual(a, b) is true exactly when a and b have the same length
\* and equal steps, type and value, at every index; it is reflexive and
\* symmetric.
C6_ArePathsEqualIsEquality ==
    /\ cmpOp = "arePathsEqual" =>
          /\ cmpRet = (Len(argA) = Len(argB) /\ \A i \in 1..Len(argA) : argA[i] = argB[i])
          /\ cmpRet = arePathsEqual(argB, argA)
    /\ cmpOp # "off" => arePathsEqual(argA, argA)

\* arePathsEqual([1, "a"], ["1", "a"]) returned false
C6_Witness ==
    /\ cmpOp = "arePathsEqual"
    /\ argA = <<Num(1), Str(<<"a">>)>>
    /\ argB = <<Str(<<"1">>), Str(<<"a">>)>>
    /\ ~cmpRet

(***************************************************************************)
(* Properties of commonRootOfPathsToProps, under SpecRoot and FairSpecRoot.*)
(***************************************************************************)
FirstPath == IF Len(pathsToProps) = 0 THEN <<>> ELSE pathsToProps[1]

\* q is a prefix of every path of the collection
CommonPrefix(q, paths) == \A j \in 1..Len(paths) : StartsWith(paths[j], q)

\* the rearrangements of a collection
Rearrangements(paths) ==
    {[j \in 1..Len(paths) |-> paths[f[j]]] :
        f \in {g \in [1..Len(paths) -> 1..Len(paths)] :
                  \A a, b \in 1..Len(paths) : g[a] = g[b] => a = b}}

\* C2: the sequence returned is a prefix of every path of the collection and
\* no longer sequence is; the empty collection gives the empty sequence and a
\* collection of one path gives that path.
C2_CommonRootIsLongestCommonPrefix ==
    rootPc = "returned" =>
        /\ CommonPrefix(commonPathToProp, pathsToProps)
        /\ Len(pathsToProps) > 0 =>
              \A q \in RootPaths :
                  CommonPrefix(q, pathsToProps) => Len(q) <= Len(commonPathToProp)
        /\ Len(pathsToProps) = 0 => commonPathToProp = <<>>
        /\ Len(pathsToProps) = 1 => commonPathToProp = pathsToProps[1]

\* the call returned a root of one step for paths that part at the second,
\* "1" against 1
C2_Witness ==
    /\ rootPc = "returned"
    /\ Len(pathsToProps) >= 2
    /\ pathsToProps[1] = <<Num(1), Str(<<"1">>)>>
    /\ pathsToProps[2] = <<Num(1), Num(1)>>
    /\ commonPathToProp = <<Num(1)>>

\* C9: the collection in any other order gives the same sequence, also when
\* the first path is longer or shorter than the others.
C9_CommonRootOrderIndependent ==
    rootPc = "returned" =>
        \A perm \in Rearrangements(pathsToProps) :
            LET r == commonRootOfPathsToProps(perm)
            IN  /\ Len(r) = Len(commonPathToProp)
                /\ \A i \in 1..Len(r) : r[i] = commonPathToProp[i]

\* the call returned for a first path longer than the second
C9_Witness ==
    /\ rootPc = "returned"
    /\ Len(pathsToProps) = 2
    /\ Len(pathsToProps[1]) > Len(pathsToProps[2])
    /\ Len(pathsToProps[2]) > 0
    /\ commonPathToProp = pathsToProps[2]

\* C10: every iteration returns or appends one step, the accumulator is a
\* prefix of the first path, at most (length of the first path + 1)
\* iterations are begun, one when the collection or the first path is empty,
\* and the call returns.
C10_CommonRootTerminates ==
    /\ [](rootPc \in {"loop", "returned"} =>
            /\ rootIters <= Len(FirstPath) + 1
            /\ StartsWith(FirstPath, commonPathToProp)
            /\ (rootPc = "returned" /\ Len(FirstPath) = 0) => rootIters = 1)
    /\ [][rootPc = "loop" =>
            /\ rootIters' = rootIters + 1
            /\ \/ rootPc' = "returned" /\ commonPathToProp' = commonPathToProp
               \/ /\ rootPc' = "loop"
                  /\ Len(commonPathToProp') = Len(commonPathToProp) + 1
                  /\ SubSeq(commonPathToProp', 1, Len(commonPathToProp)) = commonPathToProp]_vars
    /\ <>(rootPc = "returned")

\* the call returned in the iteration after the last step of the first path
C10_Witness ==
    /\ rootPc = "returned"
    /\ Len(FirstPath) = 2
    /\ rootIters = Len(FirstPath) + 1

(***************************************************************************)
(* Properties of getValueByPropPath, under SpecGet.                        *)
(***************************************************************************)
\* the value a keyed map holds under a key, undefined when it holds none
ValueUnderKey(obj, s) == IF HasOwn(obj, s) THEN OwnValue(obj, s) ELSE VUndefined

\* the element of an array at an index, undefined when out of range
ElementAt(arr, n) ==
    IF n >= 0 /\ n < Len(arr.kids) THEN arr.kids[n + 1] ELSE VUndefined

ReturnsUndefined == getPc' = "returned" /\ getRet' = VUndefined
MovesTo(v) == getPc' = "loop" /\ cur' = v

\* the value read under a key the map owns, and what Object.prototype holds
\* under one it does not
OwnOrInherited(obj, s) ==
    IF HasOwn(obj, s) THEN OwnValue(obj, s) ELSE ObjectPrototypeGet(s)

\* What a step of the call does, by the kind of cur and of the step.  The
\* string step against a keyed map reads the value under the key; with
\* `inherited`, a key the map does not own is read from Object.prototype.
StepsByKind(inherited) ==
    /\ getPc = "call" => getPc' = "loop" /\ cur' = rootVal
    /\ (getPc = "loop" /\ Len(arrays[pRef]) = 0) =>
            getPc' = "returned" /\ getRet' = cur
    /\ (getPc = "loop" /\ Len(arrays[pRef]) # 0) =>
          LET key == Head(arrays[pRef])
          IN  /\ arrays'[pRef] = Tail(arrays[pRef])
              /\ (cur.t = "array" /\ key.k = "number") => MovesTo(ElementAt(cur, key.n))
              /\ (cur.t = "array" /\ key.k = "string") => ReturnsUndefined
              /\ (cur.t = "object" /\ key.k = "string") =>
                    MovesTo(IF inherited THEN OwnOrInherited(cur, key.s)
                                         ELSE ValueUnderKey(cur, key.s))
              /\ (cur.t = "object" /\ key.k = "number") => ReturnsUndefined

\* C3: the steps are consumed left to right; an array takes a number step to
\* the element at that index (undefined out of range) and returns undefined
\* on a string step; a keyed map takes a string step to the value under that
\* key (undefined when the key is missing) and returns undefined on a number
\* step; with no step left the current value is returned.
C3_StepsSelectByKind == [][StepsByKind(FALSE)]_vars

\* C3 with the read of a key that is missing from the map going on to
\* Object.prototype: this the code does.
C3_StepsSelectByKindOrInherited == [][StepsByKind(TRUE)]_vars

\* C4: no call ends in an error; an iteration that finds cur null, undefined
\* or a primitive returns undefined, whatever steps remain.
C4_NeverThrows ==
    [][/\ getPc' # "threw"
       /\ getPc' = "returned" => getRet' # TypeError
       /\ (/\ getPc = "loop"
           /\ Len(arrays[pRef]) # 0
           /\ cur.t \in {"null", "undefined", "number"}) => ReturnsUndefined]_vars

\* the call returned undefined on finding cur null with a step still to come
C4_Witness ==
    /\ getPc = "returned"
    /\ cur = VNull
    /\ getRet = VUndefined
    /\ Len(arrays.p) > 0

\* C8: no step of the call changes the caller's pathToProp or rootVal; the
\* array that loses a step at each iteration is the copy.
C8_ArgumentsUnchanged ==
    [][/\ arrays'.pathToProp = arrays.pathToProp
       /\ rootVal' = rootVal
       /\ getPc = "call" => arrays'.p = arrays.pathToProp
       /\ (getPc = "loop" /\ Len(arrays.p) # 0) => arrays'.p = Tail(arrays.p)]_vars

\* the call returned a value at the end of a path of two steps, the copy
\* empty and the caller's path whole
C8_Witness ==
    /\ getPc = "returned"
    /\ Len(arrays.pathToProp) = 2
    /\ Len(arrays.p) = 0
    /\ getRet = VNum(7)

(***************************************************************************)
(* Properties of encodePathToProp and decodePathToProp, under SpecCodec    *)
(* and SpecMemo.                                                           *)
(***************************************************************************)
\* C1: decoding the encoding of a path gives a path of the same length with,
\* at every index, a step of the same kind and value.
C1_RoundTrip ==
    codecPc = "decoded" =>
        LET path == instances[encArg]
        IN  /\ decRet.ok
            /\ Len(decRet.path) = Len(path)
            /\ \A i \in 1..Len(path) :
                  /\ decRet.path[i].k = path[i].k
                  /\ StrictEq(decRet.path[i], path[i])

\* the path ["1", 1] was encoded and decoded
C1_Witness ==
    /\ codecPc = "decoded"
    /\ instances[encArg] = <<Str(<<"1">>), Num(1)>>
    /\ decRet.path = <<Str(<<"1">>), Num(1)>>

\* C7: the cache holds at most one entry per instance, no entry is changed
\* or removed, and a call returns what the cache holds for its instance, which
\* is what the first call with that instance returned.
C7_CacheWriteOnce ==
    [][/\ \A e \in cache : e \in cache'
       /\ \A e1, e2 \in cache' : e1.key = e2.key => e1 = e2
       /\ codecPc' = "encoded" =>
             /\ MapHas(cache', encArg')
             /\ encRet' = MapGet(cache', encArg')
             /\ MapHas(cache, encArg') => encRet' = MapGet(cache, encArg')]_vars

\* two instances of equal content have been encoded and have an entry each
C7_Witness ==
    /\ codecPc = "encoded"
    /\ Len(instances) = 2
    /\ instances[1] = instances[2]
    /\ Cardinality(cache) = 2
    /\ encArg = 1

====
